---------------------------- MODULE Spec2Model ----------------------------
(***************************************************************************)
(* Model of the chatbot's configuration store (GoogleSheetService in       *)
(* src/src/sheets.js), of the flow matcher findFlowAnswer that is embedded *)
(* in the same file, and of the load-once settings guard of GroqService    *)
(* (src/src/ai-chat.js).                                                   *)
(*                                                                         *)
(* Every async method is cut at its await: the part before the await is    *)
(* one action, the arrival of the Google Sheets response is one action,    *)
(* and the continuation after the await is one action.  Between the        *)
(* actions of one call the actions of other calls may run, which is what   *)
(* the Node.js event loop allows.                                          *)
(*                                                                         *)
(* Text is a sequence of one-character strings, so that normalizeText,     *)
(* split(",") and the three matching tiers are computed character by       *)
(* character.                                                              *)
(***************************************************************************)
EXTENDS Integers, Sequences, FiniteSets, TLC

VARIABLES
    cache,       \* flowsCache, promptsCache, scheduledMessagesCache
    lastFetch,   \* lastFlowsFetch, lastPromptsFetch, lastScheduledMessagesFetch
    sheet,       \* the spreadsheet behind the Sheets API, tab by tab
    clock,       \* Date.now() as last read
    call,        \* per call slot: where an in-flight store call stands
    ev,          \* the store call that returned in the last step
    hist,        \* history variables of the store
    settings,    \* GroqService.settings
    userMessage, \* the incoming message that is being answered
    caller,      \* per call slot: the function that awaits the store call
    out,         \* the findFlowAnswer / getResponse that returned in the last step
    loads,       \* history: number of loadSettings calls so far
    latched      \* history: the first loadSettings has ended on a failed fetch

\* The store's part of the state and the part of the functions that use it.
storeVars == <<cache, lastFetch, sheet, clock, call, ev, hist>>
callerVars == <<settings, userMessage, caller, out, loads, latched>>
vars == <<cache, lastFetch, sheet, clock, call, ev, hist,
          settings, userMessage, caller, out, loads, latched>>

-----------------------------------------------------------------------------
(* Bounds of the model.                                                    *)

\* how many calls start in one behaviour
MaxCalls == 3
\* how many of them start while another call is in flight
MaxOverlaps == 1
\* how long a text given to normalizeText is
MaxLen == 3

\* Call slots: a call in flight, and those that started during its flight.
Slots == 1..(MaxOverlaps + 1)

-----------------------------------------------------------------------------
(* Values.                                                                 *)

Resources == {"flows", "prompts", "scheduled"}

\* JavaScript null as a cell or field value.  Text is a sequence of
\* one-character strings, so this one-element sequence is no text.
JsNull == <<"null">>
\* JavaScript true and false as a call's return value.
JsTrue == <<"true">>
JsFalse == <<"false">>

\* A cache field that holds null / a cache field that holds the object v.
Null == <<>>
Some(v) == <<v>>
Val(c) == IF c = Null THEN JsNull ELSE c[1]

\* this.cacheDuration = 5 * 60 * 1000
cacheDuration == 5 * 60 * 1000

\* The constructor's fields (sheets.js 37-44).
flowsCache == cache["flows"]
promptsCache == cache["prompts"]
scheduledMessagesCache == cache["scheduled"]
lastFlowsFetch == lastFetch["flows"]
lastPromptsFetch == lastFetch["prompts"]
lastScheduledMessagesFetch == lastFetch["scheduled"]

-----------------------------------------------------------------------------
(* The spreadsheet and the Sheets API (external collaborator).             *)

\* The "Flujos" tab as spreadsheets.values.get returns range A2:C: one
\* sequence of cells per row, trailing empty cells left out by the API.  A
\* cell is text, <<>> the empty cell.
FlowRowsA ==
    << << <<"h","o","l","a">>, <<"A">> >>,
       << <<"h","o","l","a"," ","b">>, <<"B">>, <<"m">> >> >>

\* The "IA_Prompts" tab, range A2:C.  Cells of this tab are atomic strings,
\* "" the empty cell.
PromptRowsA ==
    << <<"Eres el asistente", "temperature", "0.7">>,
       <<"", "model", "llama">> >>

\* The "Mensajes_Programados" tab, rows 1.. of columns A..F; row 1 holds the
\* headers.  A cell is text, <<>> the empty cell.
SchedGrid0 ==
    << << <<"f">>, <<"h">>, <<"p">>, <<"a">>, <<"m">>, <<"e">> >>,
       << <<"1">>, <<"8">>, <<"5">>, <<"x">>, <<>>, <<"P">> >>,
       << <<"2">>, <<"9">>, <<"6">>, <<"y">>, <<>>, <<>> >> >>

\* The spreadsheet the bot is deployed with.
Sheet0 == [flows |-> FlowRowsA, prompts |-> PromptRowsA, scheduled |-> SchedGrid0]

\* What updateMessageStatus is called with: the new status ...
Statuses == { <<"E">> }
\* ... and the rowIndex of a record that getScheduledMessages gave.
RowIndexes(grid) == 2..Len(grid)

\* The column of the status cell, F.
StatusColumn == 6

\* The Sheets API leaves out the trailing empty cells of a row ...
TrimRow(row) ==
    LET filled == {i \in 1..Len(row) : row[i] # <<>>}
        last == IF filled = {} THEN 0
                ELSE CHOOSE i \in filled : \A j \in filled : j <= i
    IN  SubSeq(row, 1, last)

\* ... and the trailing empty rows of a range.
TrimRows(rows) ==
    LET filled == {i \in 1..Len(rows) : rows[i] # <<>>}
        last == IF filled = {} THEN 0
                ELSE CHOOSE i \in filled : \A j \in filled : j <= i
    IN  SubSeq(rows, 1, last)

\* spreadsheets.values.get of Mensajes_Programados!A2:F on the grid g:
\* response.data.values || []
FetchRange(g) ==
    TrimRows([i \in 1..(Len(g) - 1) |-> TrimRow(g[i + 1])])

\* spreadsheets.values.update of range Mensajes_Programados!F<rowIndex>
WriteCell(grid, rowIndex, newStatus) ==
    [grid EXCEPT ![rowIndex][StatusColumn] = newStatus]

\* What a values.get of r's range finds: the tab as it stands.
RangeNow(r) ==
    CASE r = "flows"     -> sheet.flows
      [] r = "prompts"   -> sheet.prompts
      [] r = "scheduled" -> FetchRange(sheet.scheduled)

-----------------------------------------------------------------------------
(* Row parsing.                                                            *)

\* row[index] || null : a missing cell and an empty cell both become null
OrNull(row, i) ==
    IF i <= Len(row) /\ row[i] # <<>> THEN row[i] ELSE JsNull

\* getFlows, rows.map
ParseFlows(rows) ==
    [i \in 1..Len(rows) |->
        [addKeyword |-> OrNull(rows[i], 1),
         addAnswer  |-> OrNull(rows[i], 2),
         media      |-> OrNull(rows[i], 3)]]

\* ParseScheduled numbering the records from the range's first row instead of
\* the sheet's: the header row is forgotten.
ParseScheduledOffByOne(rows) ==
    [i \in 1..Len(rows) |->
        [rowIndex  |-> (i - 1) + 1,
         fecha     |-> OrNull(rows[i], 1),
         hora      |-> OrNull(rows[i], 2),
         phone     |-> OrNull(rows[i], 3),
         addAnswer |-> OrNull(rows[i], 4),
         media     |-> OrNull(rows[i], 5),
         estado    |-> OrNull(rows[i], 6)]]

\* getScheduledMessages, rows.map: index is the 0-based offset i - 1
ParseScheduled(rows) ==
    [i \in 1..Len(rows) |->
        [rowIndex  |-> (i - 1) + 2,
         fecha     |-> OrNull(rows[i], 1),
         hora      |-> OrNull(rows[i], 2),
         phone     |-> OrNull(rows[i], 3),
         addAnswer |-> OrNull(rows[i], 4),
         media     |-> OrNull(rows[i], 5),
         estado    |-> OrNull(rows[i], 6)]]

\* A settings object: its entries in insertion order.  An entry holds the
\* key, the JavaScript type of the value and the value's text.
Entry(k, t, v) == [key |-> k, type |-> t, text |-> v]

\* Put that keeps the value a key already has: the first row wins.
PutIfAbsent(m, k, t, v) ==
    IF \E i \in 1..Len(m) : m[i].key = k THEN m
    ELSE Append(m, Entry(k, t, v))

\* settings[key] = value : an existing key keeps its place
Put(m, k, t, v) ==
    IF \E i \in 1..Len(m) : m[i].key = k
    THEN [i \in 1..Len(m) |-> IF m[i].key = k THEN Entry(k, t, v) ELSE m[i]]
    ELSE Append(m, Entry(k, t, v))

\* row[i] of a prompt row, "" when the cell is missing (undefined is falsy
\* like "")
PromptCell(row, i) == IF i <= Len(row) THEN row[i] ELSE ""

RECURSIVE PutRows(_, _, _)
\* rows.forEach(row => { if (key && value) settings[key] = value })
PutRows(m, rows, i) ==
    IF i > Len(rows) THEN m
    ELSE LET key == PromptCell(rows[i], 2)
             value == PromptCell(rows[i], 3)
         IN  PutRows(IF key # "" /\ value # "" THEN Put(m, key, "string", value)
                     ELSE m,
                     rows, i + 1)

\* getPrompts, lines 164-177
ParsePrompts(rows) ==
    LET seeded == IF Len(rows) > 0 /\ PromptCell(rows[1], 1) # ""
                  THEN Put(<<>>, "system_prompt", "string", PromptCell(rows[1], 1))
                  ELSE <<>>
    IN  PutRows(seeded, rows, 1)

Parse(r, rows) ==
    CASE r = "flows"     -> ParseFlows(rows)
      [] r = "prompts"   -> ParsePrompts(rows)
      [] r = "scheduled" -> ParseScheduled(rows)

\* What a get returns when the source call throws: [] or {}
Fallback(r) == <<>>

-----------------------------------------------------------------------------
(* Text: normalizeText and the matching tiers of findFlowAnswer.           *)

\* Characters are one-character strings; the combining marks that NFD
\* produces are named by their code point.
Lowers == <<"a", "b", "c", "d", "e", "f", "g", "h", "i", "j", "k", "l", "m",
            "n", "o", "p", "q", "r", "s", "t", "u", "v", "w", "x", "y", "z">>
Uppers == <<"A", "B", "C", "D", "E", "F", "G", "H", "I", "J", "K", "L", "M",
            "N", "O", "P", "Q", "R", "S", "T", "U", "V", "W", "X", "Y", "Z">>
Digits == {"0", "1", "2", "3", "4", "5", "6", "7", "8", "9"}
LowerLetters == {Lowers[i] : i \in 1..Len(Lowers)}
UpperLetters == {Uppers[i] : i \in 1..Len(Uppers)}

\* Whitespace, to the class \s and to trim() alike.
Whitespace == {" ", "\t", "\n"}

\* Accented letters: <<upper case, lower case, base letter, combining mark>>
Accents ==
    { <<"Á", "á", "a", "U+0301">>, <<"É", "é", "e", "U+0301">>,
      <<"Í", "í", "i", "U+0301">>, <<"Ó", "ó", "o", "U+0301">>,
      <<"Ú", "ú", "u", "U+0301">>, <<"Ñ", "ñ", "n", "U+0303">>,
      <<"Ü", "ü", "u", "U+0308">> }

\* The combining diacritical marks, U+0300 to U+036F, that occur.
CombiningMarks == {a[4] : a \in Accents}

\* toLowerCase of one character
LowerChar(c) ==
    IF c \in UpperLetters
    THEN Lowers[CHOOSE i \in 1..Len(Uppers) : Uppers[i] = c]
    ELSE IF \E a \in Accents : a[1] = c
         THEN (CHOOSE a \in Accents : a[1] = c)[2]
         ELSE c

\* .toLowerCase()
ToLowerCase(text) == [i \in 1..Len(text) |-> LowerChar(text[i])]

\* The canonical decomposition of one character.
Decompose(c) ==
    IF \E a \in Accents : a[2] = c
    THEN LET a == CHOOSE b \in Accents : b[2] = c IN <<a[3], a[4]>>
    ELSE IF \E a \in Accents : a[1] = c
         THEN LET a == CHOOSE b \in Accents : b[1] = c
              IN  <<Uppers[CHOOSE i \in 1..Len(Lowers) : Lowers[i] = a[3]], a[4]>>
         ELSE <<c>>

RECURSIVE NFD(_)
\* .normalize("NFD")
NFD(text) ==
    IF text = <<>> THEN <<>>
    ELSE Decompose(Head(text)) \o NFD(Tail(text))

\* .replace(/[\u0300-\u036f]/g, "")
StripMarks(text) == SelectSeq(text, LAMBDA c : c \notin CombiningMarks)

\* .replace(/[^a-z0-9\s]/g, "")
StripSymbols(text) ==
    SelectSeq(text, LAMBDA c : c \in LowerLetters \cup Digits \cup Whitespace)

\* .trim()
Trim(text) ==
    LET solid == {i \in 1..Len(text) : text[i] \notin Whitespace}
    IN  IF solid = {} THEN <<>>
        ELSE SubSeq(text,
                    CHOOSE i \in solid : \A j \in solid : i <= j,
                    CHOOSE i \in solid : \A j \in solid : j <= i)

\* normalizeText trimming first: what the removal of symbols and accents
\* leaves at the ends stays.
normalizeTextTrimFirst(text) ==
    StripSymbols(StripMarks(NFD(ToLowerCase(Trim(text)))))

\* normalizeText (sheets.js 56-63)
normalizeText(text) == Trim(StripSymbols(StripMarks(NFD(ToLowerCase(text)))))

RECURSIVE Split(_)
\* .split(",")
Split(text) ==
    LET commas == {i \in 1..Len(text) : text[i] = ","}
    IN  IF commas = {} THEN <<text>>
        ELSE LET i == CHOOSE c \in commas : \A j \in commas : c <= j
             IN  <<SubSeq(text, 1, i - 1)>> \o Split(SubSeq(text, i + 1, Len(text)))

\* keyword occurs in text at position i
OccursAt(text, keyword, i) ==
    /\ i + Len(keyword) - 1 <= Len(text)
    /\ SubSeq(text, i, i + Len(keyword) - 1) = keyword

\* \w of a regular expression
IsWordChar(c) == c \in LowerLetters \cup UpperLetters \cup Digits \cup {"_"}

\* \b holds in text just before position i: a word character on exactly one
\* side.
Boundary(text, i) ==
    (i > 1 /\ IsWordChar(text[i - 1])) # (i <= Len(text) /\ IsWordChar(text[i]))

\* msg === keyword
Exact(msg, keyword) == msg = keyword

\* new RegExp(`\\b${keyword}\\b`, "i").test(msg); a normalized keyword holds
\* no character that is special in a regular expression, and neither side
\* holds an upper-case letter for the flag i to fold.
WholeWord(msg, keyword) ==
    \E i \in 1..Len(msg) :
        /\ OccursAt(msg, keyword, i)
        /\ Boundary(msg, i)
        /\ Boundary(msg, i + Len(keyword))

\* msg.includes(keyword), keyword not empty
Includes(msg, keyword) == \E i \in 1..Len(msg) : OccursAt(msg, keyword, i)

\* TierOf without its last tier: a keyword inside a longer word does not
\* match.
TierOfNoPartial(msg, keyword) ==
    IF keyword = <<>> THEN "none"
    ELSE IF Exact(msg, keyword) THEN "exact"
    ELSE IF WholeWord(msg, keyword) THEN "word"
    ELSE "none"

\* The body of the keyword loop for one keyword: the tier that returns the
\* flow, "none" when the loop goes on.
TierOf(msg, keyword) ==
    IF keyword = <<>> THEN "none"
    ELSE IF Exact(msg, keyword) THEN "exact"
    ELSE IF WholeWord(msg, keyword) THEN "word"
    ELSE IF Includes(msg, keyword) THEN "partial"
    ELSE "none"

\* (flow.addKeyword || "").split(",").map(k => normalizeText(k))
Keywords(flow) ==
    LET rawKeywords == IF flow.addKeyword = JsNull THEN <<>> ELSE flow.addKeyword
        parts == Split(rawKeywords)
    IN  [i \in 1..Len(parts) |-> normalizeText(parts[i])]

RECURSIVE KeywordLoop(_, _, _)
\* for (const keyword of keywords): the tier of the first keyword that
\* matches, from the k-th on
KeywordLoop(msg, keywords, k) ==
    IF k > Len(keywords) THEN "none"
    ELSE IF TierOf(msg, keywords[k]) # "none" THEN TierOf(msg, keywords[k])
    ELSE KeywordLoop(msg, keywords, k + 1)

RECURSIVE FlowLoop(_, _, _)
\* for (const flow of flows): the first flow that a keyword returns, from the
\* i-th on, and the tier logged; null after the loop
FlowLoop(msg, flows, i) ==
    IF i > Len(flows) THEN [ret |-> JsNull, tier |-> "none"]
    ELSE LET tier == KeywordLoop(msg, Keywords(flows[i]), 1)
         IN  IF tier # "none" THEN [ret |-> flows[i], tier |-> tier]
             ELSE FlowLoop(msg, flows, i + 1)

\* MatchFlows looking for the most precise match: a flow with a keyword equal
\* to the message is preferred to an earlier flow that matches less exactly.
MatchFlowsExactFirst(msg, flows) ==
    LET exact == {i \in 1..Len(flows) :
                     \E k \in 1..Len(Keywords(flows[i])) :
                         /\ Keywords(flows[i])[k] # <<>>
                         /\ Exact(msg, Keywords(flows[i])[k])}
    IN  IF exact # {}
        THEN [ret |-> flows[CHOOSE i \in exact : \A j \in exact : i <= j],
              tier |-> "exact"]
        ELSE FlowLoop(msg, flows, 1)

\* findFlowAnswer after getFlows has returned (sheets.js 74-106)
MatchFlows(msg, flows) == FlowLoop(msg, flows, 1)

-----------------------------------------------------------------------------
(* State of the calls.                                                     *)

NoResp == [ok |-> FALSE, rows |-> <<>>, seq |-> 0]

\* A call slot with no call in flight.
Idle == [pc |-> "idle", op |-> "none", res |-> "none", now |-> 0,
         ack |-> 0, dirty |-> FALSE, resp |-> NoResp]

\* No call returned in the last step.  Of a call that did, ev holds the
\* operation, the resource, where the result came from ("cache", "source",
\* "error"), the value returned (of invalidateCache, which returns nothing:
\* the resources it emptied), the call's clock reading, and for scheduled
\* messages the history of the rows returned (seq) and of the call (ack).
NoEvent == [op |-> "none", res |-> "none", src |-> "none", ret |-> <<>>,
            now |-> 0, seq |-> 0, ack |-> 0]

\* History (not program state):
\*   okT[r]    call time of the last get on r that fetched successfully, 0
\*             after an invalidateCache or updateMessageStatus emptied r
\*   retry[r]  the last get on r to return failed, and nothing has written
\*             r's cache fields since that get was called
\*   writeSeq  number of status cells written in the sheet so far
\*   ackSeq    highest write for which updateMessageStatus has returned true
\*   cacheSeq  writeSeq as it was when the rows held in
\*             scheduledMessagesCache were read from the sheet
\*   calls     number of calls started
\*   overlaps  number of calls started while another call was in flight
NoHistory == [okT |-> [r \in Resources |-> 0],
              retry |-> [r \in Resources |-> FALSE],
              writeSeq |-> 0, ackSeq |-> 0, cacheSeq |-> 0,
              calls |-> 0, overlaps |-> 0]

TypeOK ==
    /\ DOMAIN cache = Resources
    /\ \A r \in Resources : lastFetch[r] \in 0..clock
    /\ clock >= 1
    /\ \A p \in Slots : call[p].pc \in {"idle", "await", "ready"}
    /\ \A p \in Slots : caller[p].got \in {"none", "cached", "empty"}
    /\ loads \in 0..hist.calls

\* No function awaits the store call of a slot.  Of one that does, caller
\* holds its name and what its await has been resumed with: nothing yet
\* ("none"), the object that the store's cache field holds ("cached"), or
\* the new empty object of a catch block ("empty"); of a loadSettings also
\* which call of loadSettings it is, the first, the second, ...
NoCaller == [fn |-> "none", got |-> "none", nth |-> 0]

\* No findFlowAnswer or getResponse returned in the last step.  Of one that
\* did, out holds the function, the normalized message, the table it
\* searched, what it returned, the tier it logged, where the table came from
\* ("cache", "source", "error") and, of getResponse, the system prompt sent.
NoOut == [fn |-> "none", msg |-> <<>>, flows |-> <<>>, ret |-> <<>>,
          tier |-> "none", src |-> "none", system |-> ""]

\* GoogleSheetService's constructor: every cache null, every timestamp 0
\* (sheets.js 37-44).
StoreInit ==
    /\ cache = [r \in Resources |-> Null]
    /\ lastFetch = [r \in Resources |-> 0]
    /\ clock = 1
    /\ call = [p \in Slots |-> Idle]
    /\ ev = NoEvent
    /\ hist = NoHistory

\* GroqService's constructor: settings = null (ai-chat.js 16); no call of
\* findFlowAnswer or getResponse has been made.
CallersInit ==
    /\ settings = Null
    /\ caller = [p \in Slots |-> NoCaller]
    /\ out = NoOut
    /\ loads = 0
    /\ latched = FALSE

\* The message the bot's examples are written with: "Hola".
Hola == <<"H", "o", "l", "a">>

Init ==
    /\ StoreInit
    /\ CallersInit
    /\ sheet = Sheet0
    /\ userMessage = Hola

-----------------------------------------------------------------------------
(* Time.                                                                   *)

\* Date.now() is read at the start of a get: it returns the time of the
\* previous reading plus what has elapsed since.  The steps let a get fall
\* one millisecond before the end of the freshness window and exactly on its
\* end.
TickSteps == {cacheDuration - 1, cacheDuration}

\* The clock is read d after its last reading.
Elapse(d) == clock' = clock + d

-----------------------------------------------------------------------------
(* GoogleSheetService.                                                     *)

\* Fresh with the freshness test off by one: a value aged exactly
\* cacheDuration still counts as fresh.
FreshInclusive(r, now) ==
    cache[r] # Null /\ now - lastFetch[r] <= cacheDuration

\* Fresh without the test for a stored value: the timestamp alone decides.
FreshByTimestamp(r, now) ==
    now - lastFetch[r] < cacheDuration

\* this.xCache && now - this.lastXFetch < this.cacheDuration
Fresh(r, now) ==
    cache[r] # Null /\ now - lastFetch[r] < cacheDuration

InFlight == {q \in Slots : call[q].pc # "idle"}

\* A call takes the first free slot (the slots are interchangeable).
CanStart(p) ==
    /\ call[p].pc = "idle"
    /\ \A q \in Slots : q < p => call[q].pc # "idle"
    /\ hist.calls < MaxCalls
    /\ InFlight # {} => hist.overlaps < MaxOverlaps

\* The history of a call's start.
Started ==
    [hist EXCEPT !.calls = @ + 1,
                 !.overlaps = IF InFlight # {} THEN @ + 1 ELSE @]

\* The calls in flight on r, but p, see r's cache fields written.
Dirtied(p, r) ==
    [q \in Slots |->
        IF q # p /\ call[q].pc # "idle" /\ call[q].res = r
        THEN [call[q] EXCEPT !.dirty = TRUE]
        ELSE IF q = p THEN Idle ELSE call[q]]

\* getFlows / getPrompts / getScheduledMessages up to the await: the clock is
\* read (d after its last reading), and either the cached object is returned
\* or the request is sent.
GetStart(p, r, d) ==
    /\ CanStart(p)
    /\ Elapse(d)
    /\ hist' = [Started EXCEPT !.retry[r] = FALSE]
    /\ LET now == clock + d
       IN  IF Fresh(r, now)
           THEN /\ ev' = [op |-> "get", res |-> r, src |-> "cache",
                          ret |-> Val(cache[r]), now |-> now,
                          seq |-> IF r = "scheduled" THEN hist.cacheSeq ELSE 0,
                          ack |-> IF r = "scheduled" THEN hist.ackSeq ELSE 0]
                /\ call' = call
           ELSE /\ call' = [call EXCEPT ![p] =
                               [Idle EXCEPT !.pc = "await", !.op = "get",
                                            !.res = r, !.now = now,
                                            !.ack = IF r = "scheduled"
                                                    THEN hist.ackSeq ELSE 0]]
                /\ ev' = NoEvent
    /\ UNCHANGED <<cache, lastFetch, sheet>>

\* The Sheets API answers a values.get with the rows of the range as they
\* are now.
SourceRespond(p) ==
    /\ call[p].pc = "await"
    /\ call[p].op = "get"
    /\ call' = [call EXCEPT ![p].pc = "ready",
                            ![p].resp = [ok |-> TRUE,
                                         rows |-> RangeNow(call[p].res),
                                         seq |-> IF call[p].res = "scheduled"
                                                 THEN hist.writeSeq ELSE 0]]
    /\ ev' = NoEvent
    /\ UNCHANGED <<cache, lastFetch, sheet, clock, hist>>

\* The rest of a get's try block: parse, store, return the parsed rows.
GetSucceed(p) ==
    LET c == call[p]
        r == c.res
        v == Parse(r, c.resp.rows)
    IN  /\ cache' = [cache EXCEPT ![r] = Some(v)]
        /\ lastFetch' = [lastFetch EXCEPT ![r] = c.now]
        /\ ev' = [op |-> "get", res |-> r, src |-> "source", ret |-> v,
                  now |-> c.now, seq |-> c.resp.seq, ack |-> c.ack]
        /\ hist' = [hist EXCEPT
                      !.okT[r] = c.now,
                      !.retry[r] = FALSE,
                      !.cacheSeq = IF r = "scheduled" THEN c.resp.seq ELSE @]
        /\ call' = Dirtied(p, r)

\* GetCatch stamping the failed attempt: the old value's timestamp is
\* renewed.
GetCatchStamps(p) ==
    LET c == call[p]
        r == c.res
    IN  /\ ev' = [op |-> "get", res |-> r, src |-> "error",
                  ret |-> Fallback(r), now |-> c.now, seq |-> 0, ack |-> c.ack]
        /\ hist' = [hist EXCEPT !.retry[r] = ~c.dirty]
        /\ call' = [call EXCEPT ![p] = Idle]
        /\ lastFetch' = [lastFetch EXCEPT ![r] = c.now]
        /\ UNCHANGED cache

\* A get's catch block: log and return the empty fallback.
GetCatch(p) ==
    LET c == call[p]
        r == c.res
    IN  /\ ev' = [op |-> "get", res |-> r, src |-> "error",
                  ret |-> Fallback(r), now |-> c.now, seq |-> 0, ack |-> c.ack]
        /\ hist' = [hist EXCEPT !.retry[r] = ~c.dirty]
        /\ call' = [call EXCEPT ![p] = Idle]
        /\ UNCHANGED <<cache, lastFetch>>

\* The continuation of a get after the await, once the response is there.
GetResume(p) ==
    /\ call[p].pc = "ready"
    /\ call[p].op = "get"
    /\ GetSucceed(p)
    /\ UNCHANGED <<sheet, clock>>

\* The values.get fails (network, auth, quota) and the await throws.
GetFail(p) ==
    /\ call[p].pc = "await"
    /\ call[p].op = "get"
    /\ GetCatch(p)
    /\ UNCHANGED <<sheet, clock>>

\* updateMessageStatus up to the await: the values.update request is sent.
\* What the Sheets API does with it is folded into this step, since nothing
\* in the program can tell when between the request and the response the
\* cell is written: the cell is written (ok), or the request fails and the
\* sheet is as it was.
UpdateStart(p, rowIndex, newStatus, ok) ==
    /\ CanStart(p)
    /\ IF ok
       THEN /\ sheet' = [sheet EXCEPT
                            !.scheduled = WriteCell(@, rowIndex, newStatus)]
            /\ hist' = [Started EXCEPT !.writeSeq = @ + 1]
       ELSE /\ sheet' = sheet
            /\ hist' = Started
    /\ call' = [call EXCEPT ![p] =
                   [Idle EXCEPT !.pc = "ready", !.op = "update",
                                !.res = "scheduled",
                                !.resp = IF ok
                                         THEN [ok |-> TRUE, rows |-> <<>>,
                                               seq |-> hist.writeSeq + 1]
                                         ELSE NoResp]]
    /\ ev' = NoEvent
    /\ UNCHANGED <<cache, lastFetch, clock>>

\* UpdateSucceed evicting every cache instead of the scheduled messages'.
UpdateSucceedEvictsAll(p) ==
    LET c == call[p]
    IN  /\ cache' = [r \in Resources |-> Null]
        /\ lastFetch' = lastFetch
        /\ ev' = [op |-> "update", res |-> "scheduled", src |-> "source",
                  ret |-> JsTrue, now |-> 0, seq |-> c.resp.seq, ack |-> 0]
        /\ hist' = [hist EXCEPT
                      !.okT = [r \in Resources |-> 0],
                      !.retry = [r \in Resources |-> FALSE],
                      !.ackSeq = IF c.resp.seq > @ THEN c.resp.seq ELSE @]
        /\ call' = [q \in Slots |->
                      IF q = p THEN Idle
                      ELSE IF call[q].pc # "idle"
                           THEN [call[q] EXCEPT !.dirty = TRUE]
                           ELSE call[q]]

\* The rest of updateMessageStatus's try block: scheduledMessagesCache =
\* null, return true.
UpdateSucceed(p) ==
    LET c == call[p]
    IN  /\ cache' = [cache EXCEPT !["scheduled"] = Null]
        /\ lastFetch' = lastFetch
        /\ ev' = [op |-> "update", res |-> "scheduled", src |-> "source",
                  ret |-> JsTrue, now |-> 0, seq |-> c.resp.seq, ack |-> 0]
        /\ hist' = [hist EXCEPT
                      !.okT["scheduled"] = 0,
                      !.retry["scheduled"] = FALSE,
                      !.ackSeq = IF c.resp.seq > @ THEN c.resp.seq ELSE @]
        /\ call' = Dirtied(p, "scheduled")

\* UpdateCatch evicting the scheduled messages (the eviction moved to a
\* finally block).
UpdateCatchEvicts(p) ==
    /\ ev' = [op |-> "update", res |-> "scheduled", src |-> "error",
              ret |-> JsFalse, now |-> 0, seq |-> 0, ack |-> 0]
    /\ call' = Dirtied(p, "scheduled")
    /\ cache' = [cache EXCEPT !["scheduled"] = Null]
    /\ hist' = [hist EXCEPT !.okT["scheduled"] = 0,
                            !.retry["scheduled"] = FALSE]
    /\ UNCHANGED lastFetch

\* updateMessageStatus's catch block: log, return false.
UpdateCatch(p) ==
    /\ ev' = [op |-> "update", res |-> "scheduled", src |-> "error",
              ret |-> JsFalse, now |-> 0, seq |-> 0, ack |-> 0]
    /\ call' = [call EXCEPT ![p] = Idle]
    /\ UNCHANGED <<cache, lastFetch, hist>>

\* The continuation of updateMessageStatus after the await.
UpdateResume(p) ==
    /\ call[p].pc = "ready"
    /\ call[p].op = "update"
    /\ IF call[p].resp.ok THEN UpdateSucceed(p) ELSE UpdateCatch(p)
    /\ UNCHANGED <<sheet, clock>>

\* invalidateCache: synchronous, all six fields.
InvalidateCache ==
    /\ hist.calls < MaxCalls
    /\ InFlight # {} => hist.overlaps < MaxOverlaps
    /\ cache' = [r \in Resources |-> Null]
    /\ lastFetch' = [r \in Resources |-> 0]
    /\ ev' = [NoEvent EXCEPT !.op = "invalidate",
                             !.ret = {r \in Resources : cache[r] # Null}]
    /\ hist' = [Started EXCEPT
                            !.okT = [r \in Resources |-> 0],
                            !.retry = [r \in Resources |-> FALSE]]
    /\ call' = [q \in Slots |->
                  IF call[q].pc # "idle" THEN [call[q] EXCEPT !.dirty = TRUE]
                  ELSE call[q]]
    /\ UNCHANGED <<sheet, clock>>

-----------------------------------------------------------------------------
(* The store under every interleaving of its calls.                        *)

\* The step is the store's alone: no findFlowAnswer or getResponse takes
\* part in it.
Apart ==
    /\ out' = NoOut
    /\ UNCHANGED <<settings, userMessage, caller, loads, latched>>

\* The call of slot p was made directly, not by findFlowAnswer or
\* loadSettings.
Direct(p) == caller[p].fn = "none"

\* No continuation is queued as a microtask: the event loop is free to run
\* the next callback.
LoopFree == \A p \in Slots : caller[p].got = "none"

Next ==
    \/ \E p \in Slots, r \in Resources, d \in TickSteps :
          GetStart(p, r, d) /\ Apart
    \/ \E p \in Slots : SourceRespond(p) /\ Apart
    \/ \E p \in Slots : Direct(p) /\ GetResume(p) /\ Apart
    \/ \E p \in Slots : Direct(p) /\ GetFail(p) /\ Apart
    \/ \E p \in Slots, i \in RowIndexes(sheet.scheduled), s \in Statuses,
          ok \in BOOLEAN :
          UpdateStart(p, i, s, ok) /\ Apart
    \/ \E p \in Slots : UpdateResume(p) /\ Apart
    \/ InvalidateCache /\ Apart

Spec == Init /\ [][Next]_vars

\* The store under every interleaving of get calls alone: nothing is
\* written to the sheet and invalidateCache is never called.
NextGets ==
    \/ \E p \in Slots, r \in Resources, d \in TickSteps :
          GetStart(p, r, d) /\ Apart
    \/ \E p \in Slots : SourceRespond(p) /\ Apart
    \/ \E p \in Slots : Direct(p) /\ GetResume(p) /\ Apart
    \/ \E p \in Slots : Direct(p) /\ GetFail(p) /\ Apart

SpecGets == Init /\ [][NextGets]_vars

-----------------------------------------------------------------------------
(* findFlowAnswer over the store.                                          *)

\* Incoming messages.
Holas == <<"h", "o", "l", "a", "s">>
HolaBuenos == <<"¡", "H", "ó", "l", "a", " ", "b", "u", "e", "n", "o", "s", "!">>
Adios == <<"A", "d", "i", "ó", "s">>
Signs == <<"¿", "?">>
Messages == {Hola, Holas, HolaBuenos, Adios, Signs}

\* Contents of the "Flujos" tab.
\*   the more specific keyword comes second
FlowRowsB ==
    << << <<"h","o","l","a">>, <<"A">> >>,
       << <<"h","o","l","a"," ","b","u","e","n","o","s">>, <<"B">>, <<"m">> >> >>
\*   a keyword that is only part of a word comes before the word itself
FlowRowsC ==
    << << <<"o","l","a">>, <<"A">> >>,
       << <<"h","o","l","a">>, <<"B">> >> >>
\*   an empty keyword cell, and a list with empty and decorated keywords
FlowRowsD ==
    << << <<>>, <<"A">> >>,
       << <<",", " ", ",", "¡", "!", ",", " ", "H", "ó", "l", "a", " ">>, <<"B">> >> >>
\*   a list of keywords
FlowRowsE ==
    << << <<"b","u","e","n","o","s",",","h","o","l","a">>, <<"A">> >>,
       << <<"h","o","l","a">>, <<"B">> >> >>
\*   no rows
FlowRowsNone == <<>>
FlowTables == {FlowRowsA, FlowRowsB, FlowRowsC, FlowRowsD, FlowRowsE, FlowRowsNone}

\* What findFlowAnswer returns, having got flows from getFlows (by src).
FindOut(src, flows) ==
    LET msg == normalizeText(userMessage)
        found == MatchFlows(msg, flows)
    IN  [NoOut EXCEPT !.fn = "findFlowAnswer", !.msg = msg, !.flows = flows,
                      !.ret = found.ret, !.tier = found.tier, !.src = src]

\* findFlowAnswer(userMessage) up to its await: the message is normalized and
\* getFlows is called; when getFlows returns the cached table, the search
\* runs on it.
FindStart(p, d) ==
    /\ GetStart(p, "flows", d)
    /\ IF ev'.op = "get"
       THEN /\ out' = FindOut("cache", ev'.ret)
            /\ caller' = caller
       ELSE /\ out' = NoOut
            /\ caller' = [caller EXCEPT ![p] = [fn |-> "findFlowAnswer",
                                                got |-> "none", nth |-> 0]]
    /\ UNCHANGED <<settings, userMessage, loads, latched>>

\* getFlows returns the fetched table and findFlowAnswer searches it.
FindResume(p) ==
    /\ caller[p].fn = "findFlowAnswer"
    /\ GetResume(p)
    /\ out' = FindOut("source", ev'.ret)
    /\ caller' = [caller EXCEPT ![p] = NoCaller]
    /\ UNCHANGED <<settings, userMessage, loads, latched>>

\* The fetch fails: getFlows returns [] from its catch block and
\* findFlowAnswer searches that.
FindFail(p) ==
    /\ caller[p].fn = "findFlowAnswer"
    /\ GetFail(p)
    /\ out' = FindOut("error", ev'.ret)
    /\ caller' = [caller EXCEPT ![p] = NoCaller]
    /\ UNCHANGED <<settings, userMessage, loads, latched>>

\* Any message against any table.
InitMatch ==
    /\ StoreInit
    /\ CallersInit
    /\ sheet \in {[Sheet0 EXCEPT !.flows = t] : t \in FlowTables}
    /\ userMessage \in Messages

NextMatch ==
    \/ \E p \in Slots, d \in TickSteps : FindStart(p, d)
    \/ \E p \in Slots : SourceRespond(p) /\ Apart
    \/ \E p \in Slots : FindResume(p)
    \/ \E p \in Slots : FindFail(p)

SpecMatch == InitMatch /\ [][NextMatch]_vars

-----------------------------------------------------------------------------
(* GroqService over the store.                                             *)

\* Contents of the "IA_Prompts" tab.
\*   a key given twice, and no system prompt
PromptRowsB ==
    << <<"", "temperature", "1">>,
       <<"", "temperature", " 2 ">> >>
\*   a system prompt that reads as a number
PromptRowsC ==
    << <<"0", "model", "llama">> >>
\*   whole numbers, decimals and words; a row without a value; a row that
\*   names the system prompt as its key
PromptRowsD ==
    << <<"Eres", "max_tokens", "42">>,
       <<"", "top_p", "3.5">>,
       <<"", "orphan">>,
       <<"", "system_prompt", "Otro">>,
       <<"", "model", "abc">> >>
PromptTables == {PromptRowsA, PromptRowsB, PromptRowsC, PromptRowsD}

\* Number(text) of the cell texts that read as numbers: <<text, number>>.
\* Every other text of the tabs above gives NaN.
Numerals ==
    { <<"0.7", "0.7">>, <<"1", "1">>, <<" 2 ", "2">>, <<"0", "0">>,
      <<"42", "42">>, <<"3.5", "3.5">> }

\* !isNaN(value)
IsNumeric(e) ==
    e.type = "number" \/ \E n \in Numerals : n[1] = e.text

\* Number(value)
ToNumber(e) ==
    IF e.type = "number" THEN e
    ELSE Entry(e.key, "number", (CHOOSE n \in Numerals : n[1] = e.text)[2])

\* for (const key in settings) if (!isNaN(settings[key])) settings[key] =
\* Number(settings[key])
Coerce(m) ==
    [i \in 1..Len(m) |-> IF IsNumeric(m[i]) THEN ToNumber(m[i]) ELSE m[i]]

\* this.settings.system_prompt || 'Eres un asistente útil.'
SystemPrompt(m) ==
    LET given == {i \in 1..Len(m) : m[i].key = "system_prompt"}
    IN  IF \E i \in given : ~(m[i].type = "number" /\ m[i].text = "0")
        THEN m[CHOOSE i \in given : TRUE].text
        ELSE "Eres un asistente útil."

\* What getResponse returns, with settings m: aiResponse, which is ''.
ResponseOut(m) ==
    [NoOut EXCEPT !.fn = "getResponse", !.msg = userMessage,
                  !.system = SystemPrompt(m)]

\* getResponse(userInput) up to its await, without a phone number: when
\* this.settings is set the answer is made at once; otherwise loadSettings is
\* called, which calls getPrompts.
ResponseStart(p, d) ==
    /\ LoopFree
    /\ IF settings # Null
       THEN /\ CanStart(p)
            /\ hist' = Started
            /\ ev' = NoEvent
            /\ out' = ResponseOut(Val(settings))
            /\ UNCHANGED <<cache, lastFetch, sheet, clock, call>>
            /\ UNCHANGED <<caller, loads>>
       ELSE /\ GetStart(p, "prompts", d)
            /\ loads' = loads + 1
            /\ caller' = [caller EXCEPT ![p] =
                             [fn |-> "loadSettings",
                              got |-> IF ev'.op = "get" THEN "cached"
                                      ELSE "none",
                              nth |-> loads + 1]]
            /\ out' = NoOut
    /\ UNCHANGED <<settings, userMessage, latched>>

\* getPrompts returns the fetched settings object, which promptsCache holds
\* too; loadSettings's continuation is queued.
LoadReturn(p) ==
    /\ LoopFree
    /\ caller[p].fn = "loadSettings"
    /\ GetResume(p)
    /\ caller' = [caller EXCEPT ![p].got = "cached"]
    /\ out' = NoOut
    /\ UNCHANGED <<settings, userMessage, loads, latched>>

\* The fetch fails: getPrompts returns a new {} from its catch block.
LoadFail(p) ==
    /\ LoopFree
    /\ caller[p].fn = "loadSettings"
    /\ GetFail(p)
    /\ caller' = [caller EXCEPT ![p].got = "empty"]
    /\ out' = NoOut
    /\ UNCHANGED <<settings, userMessage, loads, latched>>

\* The rest of loadSettings and of getResponse: the object that getPrompts
\* returned is coerced in place, so promptsCache, which holds the same
\* object, shows the coerced values too; this.settings is set and the answer
\* is made.
LoadResume(p) ==
    /\ caller[p].fn = "loadSettings"
    /\ caller[p].got # "none"
    /\ LET shared == caller[p].got = "cached"
           coerced == Coerce(IF shared THEN Val(cache["prompts"]) ELSE <<>>)
       IN  /\ settings' = Some(coerced)
           /\ cache' = IF shared
                       THEN [cache EXCEPT !["prompts"] = Some(coerced)]
                       ELSE cache
           /\ out' = ResponseOut(coerced)
    /\ caller' = [caller EXCEPT ![p] = NoCaller]
    /\ latched' = (latched \/ (caller[p].nth = 1 /\ caller[p].got = "empty"))
    /\ ev' = NoEvent
    /\ UNCHANGED <<lastFetch, sheet, clock, call, hist, userMessage, loads>>

\* Any contents of the prompts tab.
InitGroq ==
    /\ StoreInit
    /\ CallersInit
    /\ sheet \in {[Sheet0 EXCEPT !.prompts = t] : t \in PromptTables}
    /\ userMessage = Hola

\* getResponse calls, and other users of getPrompts, under every
\* interleaving.
NextGroq ==
    \/ \E p \in Slots, d \in TickSteps : ResponseStart(p, d)
    \/ \E p \in Slots : LoopFree /\ SourceRespond(p) /\ Apart
    \/ \E p \in Slots : LoadReturn(p)
    \/ \E p \in Slots : LoadFail(p)
    \/ \E p \in Slots : LoadResume(p)
    \/ \E p \in Slots, d \in TickSteps :
          LoopFree /\ GetStart(p, "prompts", d) /\ Apart
    \/ \E p \in Slots : LoopFree /\ Direct(p) /\ GetResume(p) /\ Apart
    \/ \E p \in Slots : LoopFree /\ Direct(p) /\ GetFail(p) /\ Apart

SpecGroq == InitGroq /\ [][NextGroq]_vars

-----------------------------------------------------------------------------
(* normalizeText on its own.                                               *)

\* Characters of every kind that normalizeText tells apart: a lower-case
\* letter, an upper-case letter, accented letters of either case, a digit, a
\* symbol, the space and another whitespace character.
TextChars == {"a", "B", "ó", "Ñ", "1", "!", " ", "\t"}

RECURSIVE TextsOfLen(_)
\* The texts of n characters.
TextsOfLen(n) ==
    IF n = 0 THEN {<<>>}
    ELSE {Append(t, c) : t \in TextsOfLen(n - 1), c \in TextChars}

\* An accented, mixed-case text with two spaces between its words and a
\* symbol at its end.
HolaBuenosDouble ==
    <<"H", "ó", "l", "a", " ", " ", "B", "u", "e", "n", "ó", "s", "!">>

Texts == UNION {TextsOfLen(n) : n \in 0..MaxLen} \cup {HolaBuenosDouble}

\* normalizeText(userMessage) is called and returns.
Normalize ==
    /\ out.fn = "none"
    /\ out' = [NoOut EXCEPT !.fn = "normalizeText",
                            !.ret = normalizeText(userMessage)]
    /\ UNCHANGED <<settings, userMessage, caller, loads, latched>>
    /\ UNCHANGED storeVars

\* Any text.
InitText ==
    /\ StoreInit
    /\ CallersInit
    /\ sheet = Sheet0
    /\ userMessage \in Texts

NextText == Normalize

SpecText == InitText /\ [][NextText]_vars

-----------------------------------------------------------------------------
(* What a step did, read off the state before and after it.               *)

\* The step is a get on r that returned the cached object.
HitOn(r) ==
    /\ hist'.calls = hist.calls + 1
    /\ ev'.op = "get" /\ ev'.res = r /\ ev'.src = "cache"

\* The step is a get on r that sent a request to the source.
MissOn(r) ==
    \E p \in Slots :
        /\ call[p].pc = "idle"
        /\ call'[p].pc = "await" /\ call'[p].op = "get" /\ call'[p].res = r

\* The step is the start of a get on r.
GetCalled(r) == HitOn(r) \/ MissOn(r)

\* The step is a get on r returning from its catch block.
GetFailed(r) == ev'.op = "get" /\ ev'.res = r /\ ev'.src = "error"

\* The step is updateMessageStatus returning true / returning false.
UpdateReturnedTrue == ev'.op = "update" /\ ev'.ret = JsTrue
UpdateReturnedFalse == ev'.op = "update" /\ ev'.ret = JsFalse

\* The step is an invalidateCache.
Invalidated == ev'.op = "invalidate"

\* No request is sent to the source in the step.
NoSourceCall == \A p \in Slots : call'[p].pc = "await" => call[p].pc = "await"

-----------------------------------------------------------------------------
(* Claims about the TTL cache.                                             *)

\* C1: for each resource, when the last successful fetch was called at time T
\* and no invalidateCache or updateMessageStatus has emptied the resource
\* since, a get called at time t returns the stored value without calling the
\* source if t - T < cacheDuration, and calls the source if
\* t - T >= cacheDuration.
C1_FreshWindow ==
    [][\A r \in Resources :
          (hist.okT[r] # 0 /\ GetCalled(r)) =>
              IF clock' - hist.okT[r] < cacheDuration
              THEN /\ HitOn(r)
                   /\ ev'.ret = Val(cache[r])
                   /\ NoSourceCall
                   /\ UNCHANGED <<cache, lastFetch>>
              ELSE MissOn(r)]_vars

\* A get called exactly cacheDuration after the fetch that filled the cache
\* has sent a request to the source.
C1_Witness ==
    \E p \in Slots :
        /\ call[p].pc = "await" /\ call[p].op = "get"
        /\ cache[call[p].res] # Null
        /\ hist.okT[call[p].res] # 0
        /\ call[p].now - hist.okT[call[p].res] = cacheDuration

\* C2: a get whose source call fails returns the resource's empty fallback
\* and leaves every stored value and timestamp as it was; and when nothing
\* else wrote the resource's cache fields since the failed get was called,
\* the next get on that resource calls the source.
C2_FailedFetch ==
    [][\A r \in Resources :
          /\ GetFailed(r) =>
                /\ ev'.ret = Fallback(r)
                /\ UNCHANGED <<cache, lastFetch>>
          /\ (hist.retry[r] /\ GetCalled(r)) => MissOn(r)]_vars

\* The refresh of a stored, expired value has just failed.
C2_Witness ==
    /\ ev.op = "get" /\ ev.src = "error"
    /\ cache[ev.res] # Null
    /\ hist.retry[ev.res]
    /\ ev.now - lastFetch[ev.res] >= cacheDuration

\* C3: an updateMessageStatus that returns true empties the scheduled
\* messages' cache and leaves the stored values and timestamps of flows and
\* prompts as they were, so what was fresh there stays fresh.
C3_TargetedEviction ==
    [][UpdateReturnedTrue =>
          /\ cache'["scheduled"] = Null
          /\ \A r \in {"flows", "prompts"} :
                /\ cache'[r] = cache[r]
                /\ lastFetch'[r] = lastFetch[r]
                /\ Fresh(r, clock)' = Fresh(r, clock)]_vars

\* updateMessageStatus has just returned true while the flows and the
\* scheduled messages were cached: the flows still are, and are fresh.
C3_Witness ==
    /\ ev.op = "update" /\ ev.ret = JsTrue
    /\ lastFetch["scheduled"] # 0
    /\ cache["flows"] # Null
    /\ Fresh("flows", clock)

\* C4: once updateMessageStatus has returned true, a getScheduledMessages
\* called afterwards returns rows that were read from the sheet after that
\* write (seq: the writes the rows include; ack: the writes acknowledged when
\* the get was called).
C4_NoStaleRead ==
    (ev.op = "get" /\ ev.res = "scheduled" /\ ev.src # "error")
        => ev.seq >= ev.ack

\* C5: a get on a resource whose cache is empty calls the source whatever the
\* clock reads; invalidateCache empties all three caches, zeroes all three
\* timestamps and sends nothing to the source, and a second invalidateCache
\* changes nothing.
C5_EmptyCacheMisses ==
    [][/\ \A r \in Resources : (cache[r] = Null /\ GetCalled(r)) => MissOn(r)
       /\ Invalidated =>
             /\ \A r \in Resources : cache'[r] = Null /\ lastFetch'[r] = 0
             /\ NoSourceCall
       /\ (ev.op = "invalidate" /\ Invalidated) =>
             UNCHANGED <<cache, lastFetch>>]_vars

\* invalidateCache has just emptied a cache that held a value.
C5_Witness ==
    /\ ev.op = "invalidate"
    /\ ev.ret # {}
    /\ \A r \in Resources : cache[r] = Null /\ lastFetch[r] = 0

\* C6: each resource's value is present if and only if its timestamp is
\* non-zero.
C6_ValueIffTimestamp ==
    \A r \in Resources : (cache[r] # Null) <=> (lastFetch[r] # 0)

\* C7: an updateMessageStatus whose write fails returns false and changes no
\* cache: every stored value and timestamp is as it was, and what was fresh
\* stays fresh.
C7_FailedWrite ==
    [][UpdateReturnedFalse =>
          /\ UNCHANGED <<cache, lastFetch>>
          /\ \A r \in Resources : Fresh(r, clock)' = Fresh(r, clock)]_vars

\* updateMessageStatus has just returned false while the scheduled messages
\* were cached and fresh: they still are.
C7_Witness ==
    /\ ev.op = "update" /\ ev.ret = JsFalse
    /\ cache["scheduled"] # Null
    /\ Fresh("scheduled", clock)

-----------------------------------------------------------------------------
(* Claims about findFlowAnswer and GroqService.                            *)

\* C8: findFlowAnswer returns the first flow of the table, in the table's
\* order, that has a non-empty normalized keyword equal to the normalized
\* message, in it as a whole word, or contained in it; it returns null (and
\* logs no tier) exactly when the table has no such flow.
C8_FirstMatchWins ==
    out.fn = "findFlowAnswer" =>
        LET Matches(i) ==
                \E k \in 1..Len(Keywords(out.flows[i])) :
                    LET keyword == Keywords(out.flows[i])[k]
                    IN  /\ keyword # <<>>
                        /\ \/ Exact(out.msg, keyword)
                           \/ WholeWord(out.msg, keyword)
                           \/ Includes(out.msg, keyword)
            hits == {i \in 1..Len(out.flows) : Matches(i)}
        IN  IF hits = {}
            THEN out.tier = "none" /\ out.ret = JsNull
            ELSE /\ out.tier # "none"
                 /\ out.ret = out.flows[CHOOSE i \in hits : \A j \in hits : i <= j]

\* findFlowAnswer has returned the first flow, which only contains the
\* message's word, while a later flow has a keyword equal to the message.
C8_Witness ==
    /\ out.fn = "findFlowAnswer"
    /\ out.tier = "partial"
    /\ out.ret = out.flows[1]
    /\ \E j \in 2..Len(out.flows) :
          \E k \in 1..Len(Keywords(out.flows[j])) :
              Exact(out.msg, Keywords(out.flows[j])[k])

\* C9: loadSettings is called at most once on a GroqService, however the
\* getResponse calls interleave.
C9_LoadedOnce == loads <= 1

\* C10: findFlowAnswer returns null (no tier matched) only when getFlows gave
\* it the table, from the cache or from a successful fetch: not when the
\* fetch failed.
C10_NullMeansNoMatch ==
    (out.fn = "findFlowAnswer" /\ out.tier = "none") => out.src # "error"

-----------------------------------------------------------------------------
(* Claims about normalizeText.                                             *)

\* C11: normalizeText is idempotent: normalizing what normalizeText returned
\* gives it back unchanged.
C11_Idempotent ==
    out.fn = "normalizeText" => normalizeText(out.ret) = out.ret

\* normalizeText has returned a text shorter than its input that begins where
\* a removed symbol was followed by whitespace.
C11_Witness ==
    /\ out.fn = "normalizeText"
    /\ Len(userMessage) >= 3
    /\ userMessage[1] = "!"
    /\ userMessage[2] \in Whitespace
    /\ out.ret # <<>>

\* C12: what normalizeText returns holds only lower-case ASCII letters, ASCII
\* digits and the space character.
C12_OnlyLettersDigitsSpace ==
    out.fn = "normalizeText" =>
        \A i \in 1..Len(out.ret) :
            out.ret[i] \in LowerLetters \cup Digits \cup {" "}

\* C13: normalizeText of 'Hóla  Buenós!' is 'hola buenos', with one space.
C13_HolaBuenos ==
    (out.fn = "normalizeText" /\ userMessage = HolaBuenosDouble) =>
        out.ret = <<"h", "o", "l", "a", " ", "b", "u", "e", "n", "o", "s">>

-----------------------------------------------------------------------------
(* Claims about the prompt settings.                                       *)

\* A getPrompts has just returned what it fetched and parsed.
PromptsFetched == ev.op = "get" /\ ev.res = "prompts" /\ ev.src = "source"

\* The rows of the prompts tab from the from-th on that give a key and a
\* value.
Contributing(rows, from) ==
    {i \in from..Len(rows) :
        PromptCell(rows[i], 2) # "" /\ PromptCell(rows[i], 3) # ""}

\* The first row's first cell is present.
Seeded(rows) == Len(rows) > 0 /\ PromptCell(rows[1], 1) # ""

\* C14 as stated: system_prompt is the first row's first cell when present,
\* and the other entries are exactly those of the rows after the first row
\* that have a key and a value, the last row of a key giving its value.
C14_RowsAfterFirst ==
    PromptsFetched =>
        LET rows == sheet.prompts
            given == Contributing(rows, 2)
            made == ev.ret
        IN  /\ Seeded(rows) =>
                  \E e \in 1..Len(made) :
                      /\ made[e].key = "system_prompt"
                      /\ made[e].text = rows[1][1]
            /\ \A e \in 1..Len(made) :
                  made[e].key # "system_prompt" =>
                      \E i \in given :
                          /\ rows[i][2] = made[e].key
                          /\ rows[i][3] = made[e].text
                          /\ \A j \in given : j > i => rows[j][2] # made[e].key
            /\ \A i \in given : \E e \in 1..Len(made) : made[e].key = rows[i][2]

\* C14, amended: every row, the first included, that has a key and a value
\* gives an entry, the last row of a key giving its value; system_prompt is
\* the first row's first cell when that cell is present and no row gives the
\* key system_prompt; the mapping has no other entry, and every value is the
\* cell's string.
C14_EveryRowContributes ==
    PromptsFetched =>
        LET rows == sheet.prompts
            given == Contributing(rows, 1)
            made == ev.ret
            keys == {rows[i][2] : i \in given}
                        \cup (IF Seeded(rows) THEN {"system_prompt"} ELSE {})
        IN  /\ {made[e].key : e \in 1..Len(made)} = keys
            /\ \A e, f \in 1..Len(made) : made[e].key = made[f].key => e = f
            /\ \A e \in 1..Len(made) :
                  /\ made[e].type = "string"
                  /\ IF \E i \in given : rows[i][2] = made[e].key
                     THEN \E i \in given :
                              /\ rows[i][2] = made[e].key
                              /\ rows[i][3] = made[e].text
                              /\ \A j \in given :
                                    j > i => rows[j][2] # made[e].key
                     ELSE made[e].text = rows[1][1]

\* getPrompts has fetched a tab in which a key is given twice.
C14_Witness ==
    /\ PromptsFetched
    /\ \E i, j \in Contributing(sheet.prompts, 1) :
          i < j /\ sheet.prompts[i][2] = sheet.prompts[j][2]
    /\ Len(ev.ret) = 1

\* The raw mapping of the prompts tab as it stands.
RawPrompts == ParsePrompts(sheet.prompts)

\* C15: after loadSettings, system_prompt (when present) is a string, and
\* every other key holds a number exactly when its raw text reads as a
\* number, and the raw string otherwise.
C15_SettingsTyping ==
    settings # Null =>
        LET resolved == Val(settings)
        IN  \A e \in 1..Len(resolved) :
                IF resolved[e].key = "system_prompt"
                THEN resolved[e].type = "string"
                ELSE \E r \in 1..Len(RawPrompts) :
                        /\ RawPrompts[r].key = resolved[e].key
                        /\ IF \E n \in Numerals : n[1] = RawPrompts[r].text
                           THEN /\ resolved[e].type = "number"
                                /\ \E n \in Numerals :
                                      /\ n[1] = RawPrompts[r].text
                                      /\ n[2] = resolved[e].text
                           ELSE resolved[e] = RawPrompts[r]

\* C16: a getPrompts served from the cache returns the raw values that the
\* fetch stored, also after loadSettings has run.
C16_CachedPromptsRaw ==
    (ev.op = "get" /\ ev.res = "prompts" /\ ev.src = "cache") =>
        ev.ret = RawPrompts

-----------------------------------------------------------------------------
(* Claims about the scheduled messages' rows.                              *)

\* The cell of a grid row as a record field holds it: null when empty.
CellOrNull(row, c) == IF row[c] = <<>> THEN JsNull ELSE row[c]

\* Each record, the k-th, has rowIndex k + 1 (its 0-based offset plus 2),
\* which is at least 2 and no other record's, and holds the cells of the
\* grid's row rowIndex.
RecordsAddressRows(records, grid) ==
    \A k \in 1..Len(records) :
        /\ records[k].rowIndex = (k - 1) + 2
        /\ records[k].rowIndex >= 2
        /\ records[k].rowIndex <= Len(grid)
        /\ \A j \in 1..Len(records) :
              j # k => records[j].rowIndex # records[k].rowIndex
        /\ LET row == grid[records[k].rowIndex]
           IN  /\ records[k].fecha = CellOrNull(row, 1)
               /\ records[k].hora = CellOrNull(row, 2)
               /\ records[k].phone = CellOrNull(row, 3)
               /\ records[k].addAnswer = CellOrNull(row, 4)
               /\ records[k].media = CellOrNull(row, 5)
               /\ records[k].estado = CellOrNull(row, 6)

\* after differs from before in the one cell of column F of row rowIndex,
\* which holds newStatus.
OnlyStatusWritten(before, after, rowIndex, newStatus) ==
    /\ Len(after) = Len(before)
    /\ \A i \in 1..Len(before) :
          /\ Len(after[i]) = Len(before[i])
          /\ \A c \in 1..Len(before[i]) :
                after[i][c] = IF i = rowIndex /\ c = 6 THEN newStatus
                              ELSE before[i][c]

\* C17: the records that getScheduledMessages returns address the sheet rows
\* they were parsed from (rowIndex = offset + 2, at least 2, pairwise
\* distinct), and updateMessageStatus(rowIndex, s) writes s to the one cell
\* in column F of that row: the record read back from the row differs in its
\* estado alone.
C17_RowRoundTrip ==
    [][/\ (/\ ev'.op = "get" /\ ev'.res = "scheduled" /\ ev'.src = "source"
           /\ ev'.seq = hist'.writeSeq)
             => RecordsAddressRows(ev'.ret, sheet'.scheduled)
       /\ \A p \in Slots, i \in RowIndexes(sheet.scheduled), s \in Statuses :
             UpdateStart(p, i, s, TRUE) =>
                /\ OnlyStatusWritten(sheet.scheduled, sheet'.scheduled, i, s)
                /\ ParseScheduled(FetchRange(sheet'.scheduled))[i - 1] =
                      [ParseScheduled(FetchRange(sheet.scheduled))[i - 1]
                          EXCEPT !.estado = s]]_vars

\* getScheduledMessages has returned, fetched after a status write, a record
\* with the written status.
C17_Witness ==
    /\ ev.op = "get" /\ ev.res = "scheduled" /\ ev.src = "source"
    /\ hist.writeSeq >= 1
    /\ ev.seq = hist.writeSeq
    /\ \E k \in 1..Len(ev.ret) :
          ev.ret[k].estado \in Statuses /\ ev.ret[k].rowIndex = k + 1

-----------------------------------------------------------------------------
(* Claims about the matching tiers.                                        *)

\* C18: findFlowAnswer returns what a matcher with the substring tier alone
\* returns, the first flow with a non-empty normalized keyword contained in
\* the normalized message (null when there is none), since a keyword that
\* passes the exact or the whole-word tier is contained in the message too.
C18_SubstringAloneDecides ==
    out.fn = "findFlowAnswer" =>
        LET Contained(i) ==
                \E k \in 1..Len(Keywords(out.flows[i])) :
                    /\ Keywords(out.flows[i])[k] # <<>>
                    /\ Includes(out.msg, Keywords(out.flows[i])[k])
            hits == {i \in 1..Len(out.flows) : Contained(i)}
        IN  /\ \A i \in 1..Len(out.flows) :
                  \A k \in 1..Len(Keywords(out.flows[i])) :
                      LET keyword == Keywords(out.flows[i])[k]
                      IN  (/\ keyword # <<>>
                           /\ Exact(out.msg, keyword) \/ WholeWord(out.msg, keyword))
                              => Includes(out.msg, keyword)
            /\ IF hits = {}
               THEN out.tier = "none" /\ out.ret = JsNull
               ELSE /\ out.tier # "none"
                    /\ out.ret =
                          out.flows[CHOOSE i \in hits : \A j \in hits : i <= j]

\* findFlowAnswer has returned the flow of keyword 'hola' for the message
\* 'holas' through the substring tier: the whole-word tier did not pass.
C18_Witness ==
    /\ out.fn = "findFlowAnswer"
    /\ out.msg = <<"h", "o", "l", "a", "s">>
    /\ out.tier = "partial"
    /\ out.ret.addKeyword = <<"h", "o", "l", "a">>
    /\ ~WholeWord(out.msg, <<"h", "o", "l", "a">>)

-----------------------------------------------------------------------------
(* Claims about the load-once guard and the write-back of fetches.         *)

\* C19: when the getPrompts of the first loadSettings fails, settings becomes
\* the empty mapping; from then on no getResponse calls loadSettings (and so
\* getPrompts) again, and every getResponse called from then on sends the
\* default system prompt.
C19_LatchedOnFailure ==
    [][/\ \A p \in Slots :
             (/\ caller[p].fn = "loadSettings" /\ caller[p].nth = 1
              /\ caller[p].got = "empty" /\ caller'[p] = NoCaller)
                => settings' = Some(<<>>)
       /\ latched =>
             /\ loads' = loads
             /\ (out'.fn = "getResponse" /\ hist'.calls = hist.calls + 1)
                    => out'.system = "Eres un asistente útil."]_vars

\* C20: while only gets are called (no invalidateCache), the stored fetch
\* timestamp of a resource never decreases, and a get that stores its result
\* over a stored value was not called earlier than the get whose result was
\* stored.
C20_NewerFetchKept ==
    [][/\ \A r \in Resources : lastFetch'[r] >= lastFetch[r]
       /\ \A p \in Slots :
             (/\ call[p].pc = "ready" /\ call[p].op = "get"
              /\ call'[p].pc = "idle"
              /\ cache[call[p].res] # Null)
                => call[p].now >= hist.okT[call[p].res]]_vars

=============================================================================
